---- MODULE Spec2Model ----
(***************************************************************************)
(* Model of src/code.py: the zoning-violation script.  The script is one   *)
(* straight-line batch; pc is the statement about to run.  Its sections    *)
(* are modelled as they stand in the source:                               *)
(*   step 5      height_map = dsm - dtm, negatives set to 0                *)
(*   step 6      node_map, then the loop rebuilding building polygons      *)
(*   step 7      sjoin(buildings, zones, predicate "within", inner)        *)
(*   step 8      buildable_area = buffer(-Setback), buffer(0)              *)
(*   step 9      boundary_violation per joined row                         *)
(*   step 10     violation = height > Max Height                           *)
(*   step 11     violation_type = classify_violation(row)                  *)
(* Numbers: elevations are integers; heights are tenths of a metre (so     *)
(* 10.5 m is 105); lengths in the metric CRS are whole metres.  Areas are  *)
(* sets of unit cells of a strip: "within" is set inclusion and a buffer   *)
(* is an erosion or dilation of the cell set.                              *)
(***************************************************************************)
EXTENDS Integers, Sequences, FiniteSets, TLC

VARIABLES
    pc,                  \* statement about to run, or "done" / "aborted"
    dsm_array,           \* step 3: clipped surface raster, pixel -> elevation
    resampled_dtm,       \* step 4: terrain raster on the surface grid
    height_map,          \* step 5
    elements,            \* data["elements"] of export.json
    node_map,            \* id -> <<lon, lat>>
    idx,                 \* position of the loop over elements (line 53)
    features,            \* the list the loop appends to
    zones,               \* the zones frame: row i has index label i-1
    buildable_area,      \* zones["buildable_area"], <<>> until step 8
    buildings_gdf,       \* the reconstructed buildings, reprojected
    buildings_within,    \* the rows of the spatial join
    row,                 \* position of the loop of step 9 (line 90)
    boundary_violations, \* the list built by step 9
    boundary_violation,  \* column of buildings_within, <<>> until assigned
    violation,           \* column of buildings_within, <<>> until assigned
    violation_type       \* column of buildings_within, <<>> until assigned

vars == <<pc, dsm_array, resampled_dtm, height_map, elements, node_map, idx,
          features, zones, buildable_area, buildings_gdf, buildings_within,
          row, boundary_violations, boundary_violation, violation,
          violation_type>>

rasterVars == <<dsm_array, resampled_dtm, height_map>>
osmVars == <<elements, node_map, idx, features>>
joinVars == <<zones, buildable_area, buildings_gdf, buildings_within, row,
              boundary_violations, boundary_violation, violation,
              violation_type>>

(***************************************************************************)
(* Optional values: Python's None is the empty tuple, a value v is <<v>>.  *)
(***************************************************************************)
None == <<>>
Some(v) == <<v>>

(***************************************************************************)
(* Bounds of the model.                                                    *)
(***************************************************************************)
NPix == 2          \* pixels of the clipped rasters
MaxElev == 3       \* elevations are 0..MaxElev
MaxElements == 2   \* ways in export.json
GridN == 3         \* cells of the strip the geometries live on
CellMetres == 5    \* metres per cell in the metric CRS
MaxBuildings == 1  \* rows of buildings_gdf

Pixels == 1..NPix
Elev == 0..MaxElev

(***************************************************************************)
(* STEP 5 (lines 41-43).                                                   *)
(***************************************************************************)
SubtractReversed(d, t) == [p \in DOMAIN d |-> t[p] - d[p]]
Subtract(d, t) == [p \in DOMAIN d |-> d[p] - t[p]]

CleanNegative(h) == [p \in DOMAIN h |-> IF h[p] < 0 THEN 0 ELSE h[p]]

ComputeHeightMap ==
    /\ pc = "step5_subtract"
    /\ height_map' = Subtract(dsm_array, resampled_dtm)
    /\ pc' = "step5_clean"
    /\ UNCHANGED <<dsm_array, resampled_dtm, osmVars, joinVars>>

CleanHeightMap ==
    /\ pc = "step5_clean"
    /\ height_map' = CleanNegative(height_map)
    /\ pc' = "step6_node_map"
    /\ UNCHANGED <<dsm_array, resampled_dtm, osmVars, joinVars>>

(***************************************************************************)
(* STEP 6 (lines 45-68): export.json.  A string is a tuple of characters.  *)
(* A node element is [type, id, lon, lat]; a way is [type, id, nodes] with *)
(* an optional field tags, a function from tag keys to strings.            *)
(***************************************************************************)
Digit == {"0", "1", "2", "3", "4", "5", "6", "7", "8", "9"}

DigitVal(c) ==
    CASE c = "0" -> 0 [] c = "1" -> 1 [] c = "2" -> 2 [] c = "3" -> 3
      [] c = "4" -> 4 [] c = "5" -> 5 [] c = "6" -> 6 [] c = "7" -> 7
      [] c = "8" -> 8 [] c = "9" -> 9

\* str.strip(), which float() and int() apply to their argument first
RECURSIVE LStrip(_)
LStrip(s) == IF s # <<>> /\ Head(s) = " " THEN LStrip(Tail(s)) ELSE s

RECURSIVE RStrip(_)
RStrip(s) ==
    IF s # <<>> /\ s[Len(s)] = " " THEN RStrip(SubSeq(s, 1, Len(s) - 1)) ELSE s

Strip(s) == RStrip(LStrip(s))

AllDigits(s) == \A i \in 1..Len(s) : s[i] \in Digit

RECURSIVE DecimalValue(_)
DecimalValue(s) ==
    IF s = <<>> THEN 0
    ELSE 10 * DecimalValue(SubSeq(s, 1, Len(s) - 1)) + DigitVal(s[Len(s)])

Dots(s) == {i \in 1..Len(s) : s[i] = "."}

(***************************************************************************)
(* int(s) on strings of digits, ".", " " and letters: the digits of the    *)
(* stripped string, ValueError otherwise.                                  *)
(***************************************************************************)
ParseInt(s) ==
    LET t == Strip(s) IN
    IF t # <<>> /\ AllDigits(t)
    THEN [raised |-> FALSE, value |-> DecimalValue(t)]
    ELSE [raised |-> TRUE, value |-> 0]

(***************************************************************************)
(* float(s) on the same strings: digits with at most one ".", at least one *)
(* digit; ValueError otherwise.  The value is in tenths and is exact for a *)
(* string with at most one digit after the point.                          *)
(***************************************************************************)
ParseFloat(s) ==
    LET t == Strip(s)
        d == Dots(t)
        whole == IF d = {} THEN t ELSE SubSeq(t, 1, (CHOOSE i \in d : TRUE) - 1)
        frac == IF d = {} THEN <<>>
                ELSE SubSeq(t, (CHOOSE i \in d : TRUE) + 1, Len(t))
    IN
    IF /\ Cardinality(d) <= 1
       /\ AllDigits(whole) /\ AllDigits(frac)
       /\ Len(whole) + Len(frac) >= 1
    THEN [raised |-> FALSE,
          value |-> 10 * DecimalValue(whole)
                    + (IF frac = <<>> THEN 0 ELSE DigitVal(frac[1]))]
    ELSE [raised |-> TRUE, value |-> 0]

\* dict.get(key): None when the key is absent
Get(tags, key) == IF key \in DOMAIN tags THEN Some(tags[key]) ELSE None

\* dict.get(key, default)
GetOr(tags, key, default) == IF key \in DOMAIN tags THEN tags[key] ELSE default

\* truth value of an optional string: None and "" are false
Truthy(opt) == opt # None /\ opt[1] # <<>>

FloorHeight == 3

(***************************************************************************)
(* Line 62:                                                                *)
(*   float(height) if height else (int(levels) * 3 if levels else None)    *)
(* in tenths of a metre; raised when float() or int() raises ValueError.   *)
(***************************************************************************)
EstHeight(height, levels) ==
    IF Truthy(height)
    THEN LET r == ParseFloat(height[1]) IN
         [raised |-> r.raised,
          value |-> IF r.raised THEN None ELSE Some(r.value)]
    ELSE IF Truthy(levels)
    THEN LET r == ParseInt(levels[1]) IN
         [raised |-> r.raised,
          value |-> IF r.raised THEN None ELSE Some(r.value * FloorHeight * 10)]
    ELSE [raised |-> FALSE, value |-> None]

\* line 51: the dict of the node elements (a later element of an id wins)
RECURSIVE NodeMapOf(_)
NodeMapOf(els) ==
    IF els = <<>> THEN <<>>
    ELSE LET init == NodeMapOf(SubSeq(els, 1, Len(els) - 1))
             el == els[Len(els)]
         IN IF el.type = "node"
            THEN [k \in DOMAIN init \cup {el.id} |->
                     IF k = el.id THEN <<el.lon, el.lat>> ELSE init[k]]
            ELSE init

\* line 56: [node_map[nid] for nid in nodes if nid in node_map]
RECURSIVE Coords(_, _)
Coords(nodes, nm) ==
    IF nodes = <<>> THEN <<>>
    ELSE IF Head(nodes) \in DOMAIN nm
         THEN <<nm[Head(nodes)]>> \o Coords(Tail(nodes), nm)
         ELSE Coords(Tail(nodes), nm)

\* line 57: the test on the resolved coordinates
EnoughCoordsLoose(coords) == Len(coords) >= 2
EnoughCoords(coords) == Len(coords) >= 3

(***************************************************************************)
(* shapely's Polygon(coords): the shell is the coordinates in their order, *)
(* closed with the first one when the last differs from it or when only    *)
(* three are given.  Nothing else is changed: repeated and collinear       *)
(* coordinates stay.                                                       *)
(***************************************************************************)
Polygon(coords) ==
    IF Len(coords) = 3 \/ coords[Len(coords)] # coords[1]
    THEN Append(coords, coords[1])
    ELSE coords

\* line 54: el["type"] == "way" and "building" in el.get("tags", {})
IsBuildingWay(el) ==
    /\ el.type = "way"
    /\ "building" \in DOMAIN (IF "tags" \in DOMAIN el THEN el.tags ELSE <<>>)

BuildNodeMap ==
    /\ pc = "step6_node_map"
    /\ features' = <<>>
    /\ node_map' = NodeMapOf(elements)
    /\ idx' = 1
    /\ pc' = "step6_loop"
    /\ UNCHANGED <<elements, rasterVars, joinVars>>

\* one iteration of the loop of line 53
ProcessElement ==
    /\ pc = "step6_loop"
    /\ idx <= Len(elements)
    /\ LET el == elements[idx] IN
       IF IsBuildingWay(el)
       THEN LET coords == Coords(el.nodes, node_map) IN
            IF EnoughCoords(coords)
            THEN LET levels == Get(el.tags, "building:levels")
                     height == Get(el.tags, "height")
                     est == EstHeight(height, levels)
                 IN IF est.raised
                    THEN /\ pc' = "aborted"
                         /\ UNCHANGED <<idx, features>>
                    ELSE /\ features' = Append(features,
                                [geometry |-> Polygon(coords),
                                 height |-> est.value,
                                 name |-> GetOr(el.tags, "name", <<>>),
                                 levels |-> levels])
                         /\ idx' = idx + 1
                         /\ pc' = pc
            ELSE /\ idx' = idx + 1
                 /\ UNCHANGED <<pc, features>>
       ELSE /\ idx' = idx + 1
            /\ UNCHANGED <<pc, features>>
    /\ UNCHANGED <<elements, node_map, rasterVars, joinVars>>

EndLoop ==
    /\ pc = "step6_loop"
    /\ idx > Len(elements)
    /\ pc' = "step6_gdf"
    /\ UNCHANGED <<osmVars, rasterVars, joinVars>>

(***************************************************************************)
(* The input of step 6: three nodes, then up to MaxElements ways.  Node 9  *)
(* is referenced by ways and is in no node element.                        *)
(***************************************************************************)
NodeElements ==
    << [type |-> "node", id |-> 1, lon |-> 0, lat |-> 0],
       [type |-> "node", id |-> 2, lon |-> 1, lat |-> 0],
       [type |-> "node", id |-> 3, lon |-> 1, lat |-> 1] >>

RefLists ==
    { <<1, 2, 3>>, <<1, 2, 3, 1>>, <<3, 1, 2>>, <<1, 9, 2, 3>>,
      <<1, 2>>, <<1, 2, 9>>, <<1, 2, 1>>, <<2, 2, 2>>, <<>> }

HeightTagValues ==
    { None, Some(<<>>), Some(<<"8">>), Some(<<"1", "0", ".", "5">>),
      Some(<<"1", "2">>), Some(<<"1", "2", " ", "m">>) }

LevelsTagValues ==
    { None, Some(<<>>), Some(<<"2">>), Some(<<"4">>), Some(<<"2", ".", "5">>) }

\* the tags of a building way with the given optional height and levels
BuildingTags(height, levels) ==
    [k \in {"building"}
           \cup (IF height = None THEN {} ELSE {"height"})
           \cup (IF levels = None THEN {} ELSE {"building:levels"}) |->
        CASE k = "building" -> <<"y", "e", "s">>
          [] k = "height" -> height[1]
          [] k = "building:levels" -> levels[1]]

RoadTags == [k \in {"highway"} |-> <<"r", "o", "a", "d">>]

WayPool ==
    {[type |-> "way", id |-> 100, nodes |-> n, tags |-> BuildingTags(None, None)] :
        n \in RefLists}
    \cup
    {[type |-> "way", id |-> 101, nodes |-> <<1, 2, 3>>,
      tags |-> BuildingTags(h, l)] :
        h \in HeightTagValues, l \in LevelsTagValues}
    \cup
    {[type |-> "way", id |-> 102, nodes |-> <<1, 2, 3>>, tags |-> RoadTags],
     [type |-> "way", id |-> 103, nodes |-> <<1, 2, 3>>]}

RECURSIVE SeqsUpTo(_, _)
SeqsUpTo(S, n) ==
    IF n = 0 THEN {<<>>}
    ELSE LET shorter == SeqsUpTo(S, n - 1) IN
         shorter \cup {Append(q, x) : q \in {t \in shorter : Len(t) = n - 1}, x \in S}

RasterIdle ==
    /\ dsm_array = [p \in Pixels |-> 0]
    /\ resampled_dtm = [p \in Pixels |-> 0]
    /\ height_map = [p \in Pixels |-> 0]

OsmIdle ==
    /\ elements = <<>>
    /\ node_map = <<>>
    /\ idx = 1
    /\ features = <<>>

JoinIdle ==
    /\ zones = <<>>
    /\ buildable_area = <<>>
    /\ buildings_gdf = <<>>
    /\ buildings_within = <<>>
    /\ row = 1
    /\ boundary_violations = <<>>
    /\ boundary_violation = <<>>
    /\ violation = <<>>
    /\ violation_type = <<>>

InitOsm ==
    /\ pc = "step6_node_map"
    /\ RasterIdle
    /\ JoinIdle
    /\ \E ways \in SeqsUpTo(WayPool, MaxElements) : elements = NodeElements \o ways
    /\ node_map = <<>>
    /\ idx = 1
    /\ features = <<>>

NextOsm == BuildNodeMap \/ ProcessElement \/ EndLoop

SpecOsm == InitOsm /\ [][NextOsm]_vars

(***************************************************************************)
(* What the claims about step 6 speak of, stated from the input alone.     *)
(***************************************************************************)
NodeIds == {elements[i].id : i \in {j \in DOMAIN elements : elements[j].type = "node"}}

NodeCoord(id) ==
    LET i == CHOOSE j \in DOMAIN elements :
                 elements[j].type = "node" /\ elements[j].id = id
    IN <<elements[i].lon, elements[i].lat>>

\* the references of a way that name a node of the input, in the way's order
RECURSIVE Resolvable(_)
Resolvable(refs) ==
    IF refs = <<>> THEN <<>>
    ELSE (IF Head(refs) \in NodeIds THEN <<NodeCoord(Head(refs))>> ELSE <<>>)
         \o Resolvable(Tail(refs))

TaggedBuilding(el) ==
    el.type = "way" /\ "tags" \in DOMAIN el /\ "building" \in DOMAIN el.tags

Qualifies(el) == TaggedBuilding(el) /\ Len(Resolvable(el.nodes)) >= 3

\* the qualifying ways among the first n elements, in order
RECURSIVE QualifyingUpTo(_)
QualifyingUpTo(n) ==
    IF n = 0 THEN <<>>
    ELSE QualifyingUpTo(n - 1)
         \o (IF Qualifies(elements[n]) THEN <<elements[n]>> ELSE <<>>)

Vertices(ring) == {ring[i] : i \in DOMAIN ring}

LoopOver == pc \in {"step6_gdf", "aborted"}

\* C5 (as claimed): when the loop is over, the collection holds exactly the
\* building ways with at least 3 resolvable references, in order, each with
\* its resolved coordinates in the order of the way's node list.
C5_WayAdmission ==
    LoopOver =>
        LET q == QualifyingUpTo(Len(elements)) IN
        /\ Len(features) = Len(q)
        /\ \A i \in DOMAIN features :
               LET c == Resolvable(q[i].nodes) IN
               SubSeq(features[i].geometry, 1, Len(c)) = c

\* C5, the part that holds of every run: the collection is always that of
\* the elements the loop has gone past, and an unresolvable reference alone
\* never ends the run.
C5_ProcessedPrefix ==
    pc \in {"step6_loop", "step6_gdf", "aborted"} =>
        LET q == QualifyingUpTo(idx - 1) IN
        /\ Len(features) = Len(q)
        /\ \A i \in DOMAIN features :
               LET c == Resolvable(q[i].nodes) IN
               SubSeq(features[i].geometry, 1, Len(c)) = c
        /\ pc = "aborted" =>
               \/ ParseFloat(GetOr(elements[idx].tags, "height", <<"0">>)).raised
               \/ ParseInt(GetOr(elements[idx].tags, "building:levels", <<"0">>)).raised

\* the height rule as the claim words it: a tag counts when it is present
\* and parses
ClaimedHeight(tags) ==
    IF "height" \in DOMAIN tags /\ ~ParseFloat(tags["height"]).raised
    THEN Some(ParseFloat(tags["height"]).value)
    ELSE IF "building:levels" \in DOMAIN tags
            /\ ~ParseInt(tags["building:levels"]).raised
    THEN Some(ParseInt(tags["building:levels"]).value * 30)
    ELSE None

\* C6 (as claimed): the run never aborts on a tag, and when the loop is over
\* every building's height is the explicit height if it parses, else three
\* metres per level if the levels parse, else unknown.
C6_HeightRule ==
    /\ pc # "aborted"
    /\ pc = "step6_gdf" =>
           LET q == QualifyingUpTo(Len(elements)) IN
           /\ Len(features) = Len(q)
           /\ \A i \in DOMAIN features :
                  features[i].height = ClaimedHeight(q[i].tags)

\* C6, the part that holds: a building that was added has the claimed height.
C6_HeightOfAdded ==
    pc \in {"step6_loop", "step6_gdf", "aborted"} =>
        LET q == QualifyingUpTo(idx - 1) IN
        /\ Len(features) = Len(q)
        /\ \A i \in DOMAIN features :
               features[i].height = ClaimedHeight(q[i].tags)

InitRaster ==
    /\ pc = "step5_subtract"
    /\ dsm_array \in [Pixels -> Elev]
    /\ resampled_dtm \in [Pixels -> Elev]
    /\ height_map = <<>>
    /\ OsmIdle
    /\ JoinIdle

NextRaster == ComputeHeightMap \/ CleanHeightMap

SpecRaster == InitRaster /\ [][NextRaster]_vars

\* C9: once step 5 is over, every pixel of height_map is
\* max(surface - terrain, 0): never negative, 0 where the surface is below
\* the terrain, the exact difference elsewhere, all 0 when the rasters agree.
C9_HeightMapClamped ==
    pc = "step6_node_map" =>
        /\ DOMAIN height_map = Pixels
        /\ \A p \in Pixels :
               /\ height_map[p] >= 0
               /\ dsm_array[p] < resampled_dtm[p] => height_map[p] = 0
               /\ dsm_array[p] >= resampled_dtm[p] =>
                      height_map[p] = dsm_array[p] - resampled_dtm[p]
        /\ dsm_array = resampled_dtm => \A p \in Pixels : height_map[p] = 0

\* C9 witness: step 5 is over, one pixel was clamped and another keeps a
\* positive difference.
C9_ClampedAndKept ==
    /\ pc = "step6_node_map"
    /\ \E p, q \in Pixels :
           /\ dsm_array[p] < resampled_dtm[p] /\ height_map[p] = 0
           /\ dsm_array[q] > resampled_dtm[q] /\ height_map[q] > 0

(***************************************************************************)
(* STEPS 7-11 (lines 73-111).  A geometry is the set of cells of the strip *)
(* 1..GridN it covers.  Row i of the zones frame carries index label i-1.  *)
(***************************************************************************)
Cells == 1..GridN

MaxHeightTenths == 105
Setback == 5

\* shapely's a.within(b): every point of a is in b, and a is not empty
WithinOrNothingToLeave(a, b) == a # {} /\ (b = {} \/ a \subseteq b)
Within(a, b) == a # {} /\ a \subseteq b

(***************************************************************************)
(* Line 74: sjoin(buildings_gdf, zones, predicate="within", how="inner"):  *)
(* one row per pair of a building and a zone the building is within, the   *)
(* building's columns, the zone's label as index_right and the zone's      *)
(* columns.  A building within no zone has no row.                         *)
(***************************************************************************)
JoinedRow(blds, zs, b, z) ==
    [left |-> b - 1,
     geometry |-> blds[b].geometry,
     height |-> blds[b].height,
     index_right |-> z - 1,
     MaxHeight |-> zs[z].MaxHeight,
     Setback |-> zs[z].Setback]

RECURSIVE RowsOfBuilding(_, _, _, _)
RowsOfBuilding(blds, zs, b, z) ==
    IF z > Len(zs) THEN <<>>
    ELSE (IF Within(blds[b].geometry, zs[z].geometry)
          THEN <<JoinedRow(blds, zs, b, z)>> ELSE <<>>)
         \o RowsOfBuilding(blds, zs, b, z + 1)

\* a join that keeps the first matching zone of a building only
RECURSIVE SJoinFirstMatch(_, _, _)
SJoinFirstMatch(blds, zs, b) ==
    IF b > Len(blds) THEN <<>>
    ELSE LET r == RowsOfBuilding(blds, zs, b, 1) IN
         (IF r = <<>> THEN <<>> ELSE <<r[1]>>) \o SJoinFirstMatch(blds, zs, b + 1)

RECURSIVE SJoinFrom(_, _, _)
SJoinFrom(blds, zs, b) ==
    IF b > Len(blds) THEN <<>>
    ELSE RowsOfBuilding(blds, zs, b, 1) \o SJoinFrom(blds, zs, b + 1)

SJoinFirstOnly(blds, zs) == SJoinFirstMatch(blds, zs, 1)
SJoin(blds, zs) == SJoinFrom(blds, zs, 1)

SpatialJoin ==
    /\ pc = "step7"
    /\ buildings_within' = SJoin(buildings_gdf, zones)
    /\ pc' = "step8"
    /\ UNCHANGED <<zones, buildable_area, buildings_gdf, row,
                   boundary_violations, boundary_violation, violation,
                   violation_type, rasterVars, osmVars>>

(***************************************************************************)
(* Lines 78-85.  to_crs(epsg=32643) takes a geometry to the metric CRS,    *)
(* where a cell is CellMetres whole metres; to_crs(dsm.crs) takes it back, *)
(* to the cells all of whose metres it covers.  buffer(d) is the set of    *)
(* metres within d of the geometry (d >= 0), or the metres of the geometry *)
(* not within -d of its complement (d < 0).                                *)
(***************************************************************************)
Metres == 1..(GridN * CellMetres)

MetresOfCell(c) == ((c - 1) * CellMetres + 1)..(c * CellMetres)

CellOfMetre(m) == ((m - 1) \div CellMetres) + 1

ToMetric(g) == {m \in Metres : CellOfMetre(m) \in g}

FromMetric(gm) == {c \in Cells : MetresOfCell(c) \subseteq gm}

Buffer(gm, d) ==
    IF d >= 0
    THEN {m \in (1 - d)..(GridN * CellMetres + d) : \E k \in (m - d)..(m + d) : k \in gm}
    ELSE {m \in gm : \A k \in (m + d)..(m - d) : k \in gm}

BuildableOutward(geometry, setback) ==
    FromMetric(Buffer(Buffer(ToMetric(geometry), setback), 0))

Buildable(geometry, setback) ==
    FromMetric(Buffer(Buffer(ToMetric(geometry), -setback), 0))

CreateBuildableArea ==
    /\ pc = "step8"
    /\ buildable_area' =
           [i \in DOMAIN zones |-> Buildable(zones[i].geometry, zones[i].Setback)]
    /\ row' = 1
    /\ boundary_violations' = <<>>
    /\ pc' = "step9_loop"
    /\ UNCHANGED <<zones, buildings_gdf, buildings_within, boundary_violation,
                   violation, violation_type, rasterVars, osmVars>>

\* line 91: zones.loc[zones.index == label].iloc[0], as a row position
ZoneAlwaysFirst(label) == CHOOSE i \in DOMAIN zones : i = 1
ZoneOfLabel(label) == CHOOSE i \in DOMAIN zones : i - 1 = label

\* one iteration of the loop of line 90
CheckBoundary ==
    /\ pc = "step9_loop"
    /\ row <= Len(buildings_within)
    /\ LET building == buildings_within[row]
           zone == ZoneOfLabel(building.index_right)
           in_buildable == Within(building.geometry, buildable_area[zone])
       IN boundary_violations' = Append(boundary_violations, ~in_buildable)
    /\ row' = row + 1
    /\ UNCHANGED <<pc, zones, buildable_area, buildings_gdf, buildings_within,
                   boundary_violation, violation, violation_type, rasterVars,
                   osmVars>>

\* line 95
AssignBoundary ==
    /\ pc = "step9_loop"
    /\ row > Len(buildings_within)
    /\ boundary_violation' = boundary_violations
    /\ pc' = "step10"
    /\ UNCHANGED <<zones, buildable_area, buildings_gdf, buildings_within, row,
                   boundary_violations, violation, violation_type, rasterVars,
                   osmVars>>

(***************************************************************************)
(* Line 98: the elementwise height > Max Height.  An unknown height is NaN *)
(* (None in a column without numbers) and compares False.                  *)
(***************************************************************************)
HeightAtLeast(height, max_height) == height # None /\ height[1] >= max_height
HeightExceeds(height, max_height) == height # None /\ height[1] > max_height

CheckHeight ==
    /\ pc = "step10"
    /\ violation' = [i \in DOMAIN buildings_within |->
                        HeightExceeds(buildings_within[i].height,
                                      buildings_within[i].MaxHeight)]
    /\ pc' = "step11"
    /\ UNCHANGED <<zones, buildable_area, buildings_gdf, buildings_within, row,
                   boundary_violations, boundary_violation, violation_type,
                   rasterVars, osmVars>>

\* lines 101-109
classify_violation_swapped(r) ==
    IF r.violation /\ r.boundary_violation THEN "Both"
    ELSE IF r.violation THEN "Boundary"
    ELSE IF r.boundary_violation THEN "Height"
    ELSE "None"

classify_violation(r) ==
    IF r.violation /\ r.boundary_violation THEN "Both"
    ELSE IF r.violation THEN "Height"
    ELSE IF r.boundary_violation THEN "Boundary"
    ELSE "None"

\* line 111
LabelViolationType ==
    /\ pc = "step11"
    /\ violation_type' =
           [i \in DOMAIN buildings_within |->
               classify_violation([violation |-> violation[i],
                                   boundary_violation |-> boundary_violation[i]])]
    /\ pc' = "step12"
    /\ UNCHANGED <<zones, buildable_area, buildings_gdf, buildings_within, row,
                   boundary_violations, boundary_violation, violation,
                   rasterVars, osmVars>>

(***************************************************************************)
(* The input of steps 7-11: two zones, each an interval of the strip with  *)
(* the attributes of lines 12-13, and up to MaxBuildings buildings, each   *)
(* an interval with a height of 8 m, 10.5 m, 12 m or unknown.              *)
(***************************************************************************)
Intervals == {a..b : a \in Cells, b \in Cells} \ {{}}

ZoneLabels == {0, 1}

HeightValues == {None, Some(80), Some(105), Some(120)}

BuildingRows == [geometry : Intervals, height : HeightValues]

InitJoin ==
    /\ pc = "step7"
    /\ RasterIdle
    /\ OsmIdle
    /\ zones \in [{l + 1 : l \in ZoneLabels} ->
                    [geometry : Intervals, MaxHeight : {MaxHeightTenths},
                     Setback : {Setback}]]
    /\ buildings_gdf \in SeqsUpTo(BuildingRows, MaxBuildings)
    /\ buildable_area = <<>>
    /\ buildings_within = <<>>
    /\ row = 1
    /\ boundary_violations = <<>>
    /\ boundary_violation = <<>>
    /\ violation = <<>>
    /\ violation_type = <<>>

NextJoin ==
    \/ SpatialJoin
    \/ CreateBuildableArea
    \/ CheckBoundary
    \/ AssignBoundary
    \/ CheckHeight
    \/ LabelViolationType

SpecJoin == InitJoin /\ [][NextJoin]_vars

(***************************************************************************)
(* Step 8 on its own, with the Setback column holding supplied values.     *)
(***************************************************************************)
SetbackValues == {0, Setback, 2 * Setback}

InitParcel ==
    /\ pc = "step8"
    /\ RasterIdle
    /\ OsmIdle
    /\ zones \in [{l + 1 : l \in ZoneLabels} ->
                    [geometry : Intervals, MaxHeight : {MaxHeightTenths},
                     Setback : SetbackValues]]
    /\ buildings_gdf = <<>>
    /\ buildable_area = <<>>
    /\ buildings_within = <<>>
    /\ row = 1
    /\ boundary_violations = <<>>
    /\ boundary_violation = <<>>
    /\ violation = <<>>
    /\ violation_type = <<>>

NextParcel == CreateBuildableArea

SpecParcel == InitParcel /\ [][NextParcel]_vars

(***************************************************************************)
(* What the claims about steps 7-11 speak of.                              *)
(***************************************************************************)
Joined == pc \in {"step8", "step9_loop", "step10", "step11", "step12"}
BoundaryChecked == pc \in {"step10", "step11", "step12"}
HeightChecked == pc \in {"step11", "step12"}

\* the zone row a joined row refers to
ParcelOf(r) == r.index_right + 1

\* the zones a building is entirely within
Containing(b) ==
    {z \in DOMAIN zones :
        /\ buildings_gdf[b].geometry # {}
        /\ buildings_gdf[b].geometry \subseteq zones[z].geometry}

RowsOf(b) == {i \in DOMAIN buildings_within : buildings_within[i].left = b - 1}

\* C1: every joined row gets exactly one label, the one the truth table
\* gives for its pair (height violation, boundary violation).
C1_ClassifyTruthTable ==
    pc = "step12" =>
        /\ DOMAIN violation_type = DOMAIN buildings_within
        /\ \A i \in DOMAIN buildings_within :
               violation_type[i] =
                   CASE violation[i] /\ boundary_violation[i] -> "Both"
                     [] violation[i] /\ ~boundary_violation[i] -> "Height"
                     [] ~violation[i] /\ boundary_violation[i] -> "Boundary"
                     [] ~violation[i] /\ ~boundary_violation[i] -> "None"

\* C1 witness: a labelled run in which one row is Both and another Height.
C1_BothAndHeight ==
    /\ pc = "step12"
    /\ \E i, j \in DOMAIN violation_type :
           violation_type[i] = "Both" /\ violation_type[j] = "Height"

\* C2: a joined row has a height violation iff its building's height is
\* known and strictly above the Max Height of its parcel.
C2_HeightViolationIffKnownAndAbove ==
    HeightChecked =>
        /\ DOMAIN violation = DOMAIN buildings_within
        /\ \A i \in DOMAIN buildings_within :
               LET r == buildings_within[i]
                   h == buildings_gdf[r.left + 1].height
               IN violation[i] <=>
                      (h # None /\ h[1] > zones[ParcelOf(r)].MaxHeight)

\* C2 witness: a row of unknown height, checked and not in violation.
C2_UnknownNotViolating ==
    /\ HeightChecked
    /\ \E i \in DOMAIN buildings_within :
           buildings_within[i].height = None /\ ~violation[i]

\* C3: a joined row has a boundary violation iff its building's geometry is
\* not within the buildable area of the parcel named by its index_right, and
\* the flags have the order of the joined rows.
C3_BoundaryViolationIffNotWithin ==
    BoundaryChecked =>
        /\ DOMAIN boundary_violation = DOMAIN buildings_within
        /\ \A i \in DOMAIN buildings_within :
               LET r == buildings_within[i]
                   g == buildings_gdf[r.left + 1].geometry
               IN boundary_violation[i] <=>
                      ~(g # {} /\ g \subseteq buildable_area[ParcelOf(r)])

\* C3 witness: two joined rows, the first inside its parcel's buildable area
\* and not flagged, the second outside its parcel's and flagged.
C3_FlagsFollowRows ==
    /\ BoundaryChecked
    /\ \E i, j \in DOMAIN buildings_within :
           /\ i < j
           /\ ~boundary_violation[i] /\ boundary_violation[j]
           /\ buildings_within[i].index_right # buildings_within[j].index_right

C7_BuildableWithinParcel ==
    pc = "step9_loop" =>
        /\ DOMAIN buildable_area = DOMAIN zones
        /\ \A z \in DOMAIN zones :
               /\ buildable_area[z] \subseteq zones[z].geometry
               /\ zones[z].Setback = 0 => buildable_area[z] = zones[z].geometry
        /\ \A y, z \in DOMAIN zones :
               (zones[y].geometry = zones[z].geometry
                /\ zones[y].Setback <= zones[z].Setback)
               => buildable_area[z] \subseteq buildable_area[y]

\* C7 witness: two parcels of one geometry, the larger setback leaving a
\* non-empty buildable area strictly inside that of the smaller.
C7_StrictlySmaller ==
    /\ pc = "step9_loop"
    /\ \E y, z \in DOMAIN zones :
           /\ zones[y].geometry = zones[z].geometry
           /\ zones[y].Setback = 0 /\ zones[z].Setback > 0
           /\ buildable_area[z] # {}
           /\ buildable_area[z] # buildable_area[y]

\* C8 (as claimed): no row joined to a parcel whose buildable area is empty
\* has a boundary violation.
C8_EmptyAreaNoViolation ==
    BoundaryChecked =>
        \A i \in DOMAIN buildings_within :
            buildable_area[ParcelOf(buildings_within[i])] = {}
            => ~boundary_violation[i]

\* C8 (amended): the run goes on to the labels, and every row joined to a
\* parcel whose buildable area is empty has a boundary violation.
C8_EmptyAreaAlwaysViolation ==
    /\ pc # "aborted"
    /\ BoundaryChecked =>
           \A i \in DOMAIN buildings_within :
               buildable_area[ParcelOf(buildings_within[i])] = {}
               => boundary_violation[i]
    /\ pc = "step12" =>
           \A i \in DOMAIN buildings_within :
               buildable_area[ParcelOf(buildings_within[i])] = {}
               => violation_type[i] \in {"Boundary", "Both"}

\* C8 witness: the run is over and a row is joined to a parcel whose
\* buildable area is empty.
C8_JoinedToEmptyArea ==
    /\ pc = "step12"
    /\ \E i \in DOMAIN buildings_within :
           buildable_area[ParcelOf(buildings_within[i])] = {}

====
